---------------------------- MODULE Spec2Model ----------------------------
(***************************************************************************)
(* Model of guess-build-system.py: BuildSystemDetector and main().         *)
(*                                                                         *)
(* A file name is a sequence of one-character strings, so that the regular *)
(* expressions of the pattern table are matched character by character,    *)
(* case-insensitively, as re.match(pattern, name, re.IGNORECASE) does.     *)
(* A pathlib.Path is the sequence of its parts; str(path) joins the parts  *)
(* with "/".                                                               *)
(***************************************************************************)
EXTENDS Integers, Sequences, FiniteSets, TLC

VARIABLES
    fs,            \* the directory tree under the current directory
    manifest,      \* content of ./package.json when it is a regular file
    json,          \* args.json
    pc,            \* position in main()
    pending,       \* entries the loop of line 80 has still to visit
    all_files,     \* detect_build_system: all_files
    detected,      \* detect_build_system: detected_systems / main: detected
    package_info,  \* main: package_info
    stdout,        \* what has been printed
    reads,         \* filesystem accesses made so far, in order
    raised         \* the exception that ended the run, or "none"

vars == <<fs, manifest, json, pc, pending, all_files, detected, package_info,
          stdout, reads, raised>>

---------------------------------------------------------------------------
(* Bounds of the model *)

MaxTop == 2
MaxSub == 1
MaxDeps == 6

---------------------------------------------------------------------------
(* Regular expressions: the fragment the pattern table uses.  Every pattern *)
(* is ^ e1 e2 ... en $ with the elements below.                             *)

Lit(s) == [t |-> "lit", s |-> s]
Opt(s) == [t |-> "opt", s |-> s]
Alt(S) == [t |-> "alt", alts |-> S]
Cls(S) == [t |-> "cls", cs |-> S]
AnyStar == [t |-> "anystar"]

UpperCase == <<"A", "B", "C", "D", "E", "F", "G", "H", "I", "J", "K", "L", "M", "N", "O", "P", "Q", "R", "S", "T", "U", "V", "W", "X", "Y", "Z">>
LowerCase == <<"a", "b", "c", "d", "e", "f", "g", "h", "i", "j", "k", "l", "m", "n", "o", "p", "q", "r", "s", "t", "u", "v", "w", "x", "y", "z">>

\* re.IGNORECASE: characters are compared after case folding
CaseFold ==
    [c \in {UpperCase[i] : i \in 1..Len(UpperCase)} |->
        LowerCase[CHOOSE i \in 1..Len(UpperCase) : UpperCase[i] = c]]

Lower(c) == IF c \in DOMAIN CaseFold THEN CaseFold[c] ELSE c

\* the literal lit occurs in s at position j, ignoring case
LitAt(lit, s, j) ==
    /\ j + Len(lit) - 1 <= Len(s)
    /\ \A k \in 1..Len(lit) : Lower(lit[k]) = Lower(s[j + k - 1])

\* the end anchor matches at the end of the string and just before a final newline
AtEnd(s, j) ==
    \/ j = Len(s) + 1
    \/ j = Len(s) /\ s[j] = "\n"

RECURSIVE MatchFrom(_, _, _, _)
MatchFrom(p, i, s, j) ==
    IF i > Len(p) THEN AtEnd(s, j)
    ELSE LET e == p[i] IN
         CASE e.t = "lit" ->
                LitAt(e.s, s, j) /\ MatchFrom(p, i + 1, s, j + Len(e.s))
           [] e.t = "opt" ->
                \/ LitAt(e.s, s, j) /\ MatchFrom(p, i + 1, s, j + Len(e.s))
                \/ MatchFrom(p, i + 1, s, j)
           [] e.t = "alt" ->
                \E a \in e.alts :
                    LitAt(a, s, j) /\ MatchFrom(p, i + 1, s, j + Len(a))
           [] e.t = "cls" ->
                /\ j <= Len(s)
                /\ \E c \in e.cs : Lower(c) = Lower(s[j])
                /\ MatchFrom(p, i + 1, s, j + 1)
           [] e.t = "anystar" ->
                \E k \in j..(Len(s) + 1) :
                    /\ \A m \in j..(k - 1) : s[m] # "\n"
                    /\ MatchFrom(p, i + 1, s, k)

\* re.match(pattern, name, re.IGNORECASE) is not None
ReMatch(pattern, name) == MatchFrom(pattern, 1, name, 1)

---------------------------------------------------------------------------
(* self.build_systems: the pattern table, in declaration order *)

build_systems == <<
    [system |-> "Maven",
     patterns |-> << <<Lit(<<"p", "o", "m", ".", "x", "m", "l">>)>> >>],
    [system |-> "Gradle",
     patterns |-> << <<Lit(<<"b", "u", "i", "l", "d", ".", "g", "r", "a", "d", "l", "e">>), Opt(<<".", "k", "t", "s">>)>>,
                     <<Lit(<<"s", "e", "t", "t", "i", "n", "g", "s", ".", "g", "r", "a", "d", "l", "e">>)>>,
                     <<Lit(<<"g", "r", "a", "d", "l", "e", "w">>)>> >>],
    [system |-> "npm",
     patterns |-> << <<Lit(<<"p", "a", "c", "k", "a", "g", "e">>), Opt(<<"-", "l", "o", "c", "k">>), Lit(<<".", "j", "s", "o", "n">>)>>,
                     <<Lit(<<"n", "p", "m", "-", "s", "h", "r", "i", "n", "k", "w", "r", "a", "p", ".", "j", "s", "o", "n">>)>> >>],
    [system |-> "Yarn",
     patterns |-> << <<Lit(<<"y", "a", "r", "n", ".", "l", "o", "c", "k">>)>> >>],
    [system |-> "Python/pip",
     patterns |-> << <<Lit(<<"r", "e", "q", "u", "i", "r", "e", "m", "e", "n", "t", "s">>), AnyStar, Lit(<<".", "t", "x", "t">>)>>,
                     <<Lit(<<"s", "e", "t", "u", "p", ".", "p", "y">>)>>,
                     <<Lit(<<"p", "y", "p", "r", "o", "j", "e", "c", "t", ".", "t", "o", "m", "l">>)>> >>],
    [system |-> "Poetry",
     patterns |-> << <<Lit(<<"p", "o", "e", "t", "r", "y", ".", "l", "o", "c", "k">>)>> >>],
    [system |-> "CMake",
     patterns |-> << <<Lit(<<"C", "M", "a", "k", "e", "L", "i", "s", "t", "s", ".", "t", "x", "t">>)>> >>],
    [system |-> "Make",
     patterns |-> << <<Cls({"M", "m"}), Lit(<<"a", "k", "e", "f", "i", "l", "e">>)>> >>],
    [system |-> "Cargo (Rust)",
     patterns |-> << <<Lit(<<"C", "a", "r", "g", "o", ".">>), Alt({<<"t", "o", "m", "l">>, <<"l", "o", "c", "k">>})>> >>],
    [system |-> "Composer (PHP)",
     patterns |-> << <<Lit(<<"c", "o", "m", "p", "o", "s", "e", "r", ".">>), Alt({<<"j", "s", "o", "n">>, <<"l", "o", "c", "k">>})>> >>],
    [system |-> "Bazel",
     patterns |-> << <<Lit(<<"W", "O", "R", "K", "S", "P", "A", "C", "E">>)>>,
                     <<Lit(<<"B", "U", "I", "L", "D">>), Opt(<<".", "b", "a", "z", "e", "l">>)>> >>],
    [system |-> "Ant",
     patterns |-> << <<Lit(<<"b", "u", "i", "l", "d", ".", "x", "m", "l">>)>> >>],
    [system |-> "sbt (Scala)",
     patterns |-> << <<Lit(<<"b", "u", "i", "l", "d", ".", "s", "b", "t">>)>> >>],
    [system |-> "Go Modules",
     patterns |-> << <<Lit(<<"g", "o", ".">>), Alt({<<"m", "o", "d">>, <<"s", "u", "m">>})>> >>],
    [system |-> "Lazarus",
     patterns |-> << <<AnyStar, Lit(<<".">>), Alt({<<"l", "p", "i">>, <<"l", "p", "r">>, <<"l", "p", "k">>})>> >>],
    [system |-> "SCons",
     patterns |-> << <<Lit(<<"S", "C", "o", "n", "s", "t", "r", "u", "c", "t">>)>>,
                     <<Lit(<<"S", "C", "o", "n", "s", "c", "r", "i", "p", "t">>)>> >>]
>>

---------------------------------------------------------------------------
(* Sequences *)

Range(s) == {s[i] : i \in 1..Len(s)}

\* the concatenation of a sequence of sequences
RECURSIVE Flatten(_)
Flatten(ss) == IF ss = << >> THEN << >> ELSE Head(ss) \o Flatten(Tail(ss))

---------------------------------------------------------------------------
(* Paths *)

\* Path.name: the last part
PathName(path) == path[Len(path)]

\* variant: only the file's own name is printed
PathStrName(path) == path[Len(path)]

\* str(path): the parts joined with "/"; Path('.') / 'x' is 'x'
RECURSIVE PathStr(_)
PathStr(path) ==
    IF Len(path) = 1 THEN path[1]
    ELSE path[1] \o <<"/">> \o PathStr(Tail(path))

---------------------------------------------------------------------------
(* The directory tree.  An entry has a name and a kind; a directory also   *)
(* has its own entries and may refuse to be listed.                        *)

FileEntry(n) == [name |-> n, kind |-> "file", listable |-> TRUE, entries |-> <<>>]
DirEntry(n, l, es) == [name |-> n, kind |-> "dir", listable |-> l, entries |-> es]

\* sequences of at most n entries of S with pairwise different names: a
\* directory listing in the order the filesystem enumerates it
Listings(S, n) ==
    UNION {{s \in [1..k -> S] :
                \A i, j \in 1..k : i < j => s[i].name # s[j].name} : k \in 0..n}

TopFileNames == {<<"b", "u", "i", "l", "d", ".", "g", "r", "a", "d", "l", "e">>, <<"s", "e", "t", "t", "i", "n", "g", "s", ".", "g", "r", "a", "d", "l", "e">>, <<"p", "a", "c", "k", "a", "g", "e", ".", "j", "s", "o", "n">>,
                 <<"y", "a", "r", "n", ".", "l", "o", "c", "k">>, <<"g", "o", ".", "m", "o", "d">>, <<"C", "a", "r", "g", "o", ".", "t", "o", "m", "l">>, <<"R", "E", "A", "D", "M", "E", ".", "m", "d">>}
TopDirNames == {<<"b", "u", "i", "l", "d">>, <<"s", "r", "c">>}
SubFileNames == {<<"p", "o", "m", ".", "x", "m", "l">>, <<"p", "a", "c", "k", "a", "g", "e", ".", "j", "s", "o", "n">>}
SubDirNames == {<<"W", "O", "R", "K", "S", "P", "A", "C", "E">>}

\* what a directory two levels down contains
DeepEntries == <<FileEntry(<<"C", "a", "r", "g", "o", ".", "t", "o", "m", "l">>)>>

SubEntries ==
    {FileEntry(n) : n \in SubFileNames}
        \cup {DirEntry(n, TRUE, DeepEntries) : n \in SubDirNames}

TopEntries ==
    {FileEntry(n) : n \in TopFileNames}
        \cup {DirEntry(n, TRUE, es) : n \in TopDirNames, es \in Listings(SubEntries, MaxSub)}
        \cup {DirEntry(n, FALSE, <<>>) : n \in TopDirNames}

FileSystems ==
    {[listable |-> TRUE, entries |-> es] : es \in Listings(TopEntries, MaxTop)}
        \cup {[listable |-> FALSE, entries |-> <<>>]}

---------------------------------------------------------------------------
(* The content of ./package.json *)

DepNames == <<"a", "b", "c", "d", "e", "f", "g", "h">>
Reverse(s) == [i \in 1..Len(s) |-> s[Len(s) + 1 - i]]

JString(x) == [t |-> "string", s |-> x]
JNull == [t |-> "null"]
JMapping(keys) == [t |-> "object", keys |-> keys]
JArray == [t |-> "array"]
JObject(members) == [t |-> "object", members |-> members]

DependencyValues ==
    {JNull}
        \cup {JMapping(SubSeq(DepNames, 1, n)) : n \in 0..MaxDeps}
        \cup {JMapping(Reverse(SubSeq(DepNames, 1, n))) : n \in 0..MaxDeps}

Documents ==
    {JArray}
        \cup {JObject(<< >>)}
        \cup {JObject([name |-> JString("foo"), version |-> JString("1.0.0")])}
        \cup {JObject([dependencies |-> d]) : d \in DependencyValues}
        \cup {JObject([name |-> JString("foo"), version |-> JString("1.0.0"),
                       dependencies |-> d]) : d \in DependencyValues}

Absent == [t |-> "absent"]
Malformed == [t |-> "malformed"]
Parsed(doc) == [t |-> "json", value |-> doc]

AllManifests == {Malformed} \cup {Parsed(d) : d \in Documents}
SimpleManifests ==
    {Malformed,
     Parsed(JObject([name |-> JString("foo"), version |-> JString("1.0.0"),
                     dependencies |-> JMapping(<<"a">>)]))}

package_json == <<"p", "a", "c", "k", "a", "g", "e", ".", "j", "s", "o", "n">>

\* the entry Path(directory) / 'package.json' names, if any
ManifestEntries(tree) ==
    {i \in 1..Len(tree.entries) : tree.entries[i].name = package_json}

HasManifestFile(tree) ==
    \E i \in ManifestEntries(tree) : tree.entries[i].kind = "file"

ManifestsOf(tree) ==
    IF ~HasManifestFile(tree) THEN {Absent}
    ELSE IF Len(tree.entries) = 1 THEN AllManifests
    ELSE SimpleManifests

---------------------------------------------------------------------------
(* detect_build_system *)

IterDir(path) == [op |-> "iterdir", path |-> path]

\* variant: the entries are not filtered by is_file()
FilesInUnfiltered(prefix, entries) ==
    [i \in 1..Len(entries) |-> Append(prefix, entries[i].name)]

\* [f for f in d.iterdir() if f.is_file()], as paths below prefix
FilesIn(prefix, entries) ==
    LET regular == SelectSeq(entries, LAMBDA e : e.kind = "file")
    IN  [i \in 1..Len(regular) |-> Append(prefix, regular[i].name)]

TopFiles(tree) == FilesIn(<< >>, tree.entries)

\* variant: the scan descends one level further
SubdirFilesDeeper(subdir) ==
    LET dirs == SelectSeq(subdir.entries, LAMBDA e : e.kind = "dir")
    IN  FilesIn(<<subdir.name>>, subdir.entries)
            \o Flatten([i \in 1..Len(dirs) |->
                          FilesIn(<<subdir.name, dirs[i].name>>, dirs[i].entries)])

SubdirFiles(subdir) == FilesIn(<<subdir.name>>, subdir.entries)

\* [file for file in all_files if re.match(pattern, file.name, re.IGNORECASE)]
Matches(pattern, files) ==
    SelectSeq(files, LAMBDA f : ReMatch(pattern, PathName(f)))

\* the loop over the patterns of one system, left at the first pattern that
\* matches a file; << >> when no pattern matches
RECURSIVE PatternLoop(_, _, _)
PatternLoop(patterns, k, files) ==
    IF k > Len(patterns) THEN << >>
    ELSE LET matches == Matches(patterns[k], files)
         IN  IF matches # << >> THEN matches
             ELSE PatternLoop(patterns, k + 1, files)

\* variant: the loop over the patterns is not left at the first match
FoundByAnyPattern(patterns, files) ==
    SelectSeq(files, LAMBDA f :
        \E k \in 1..Len(patterns) : ReMatch(patterns[k], PathName(f)))

FoundFiles(patterns, files) == PatternLoop(patterns, 1, files)

\* the loop over the table
RECURSIVE SystemLoop(_, _)
SystemLoop(i, files) ==
    IF i > Len(build_systems) THEN << >>
    ELSE LET found == FoundFiles(build_systems[i].patterns, files)
             rest == SystemLoop(i + 1, files)
         IN  IF found # << >>
             THEN <<[system |-> build_systems[i].system, found_files |-> found]>> \o rest
             ELSE rest

\* variant: the systems are reported in the order their files were found
FirstHit(i, files) ==
    CHOOSE n \in 1..Len(files) :
        /\ FoundFiles(build_systems[i].patterns, <<files[n]>>) # << >>
        /\ \A m \in 1..(n - 1) :
              FoundFiles(build_systems[i].patterns, <<files[m]>>) = << >>

RECURSIVE InFileOrder(_, _)
InFileOrder(S, files) ==
    IF S = {} THEN << >>
    ELSE LET i == CHOOSE i \in S : \A j \in S :
                      \/ FirstHit(i, files) < FirstHit(j, files)
                      \/ FirstHit(i, files) = FirstHit(j, files) /\ i <= j
         IN  <<[system |-> build_systems[i].system,
                found_files |-> FoundFiles(build_systems[i].patterns, files)]>>
                 \o InFileOrder(S \ {i}, files)

DetectedInFileOrder(files) ==
    InFileOrder({i \in 1..Len(build_systems) :
                    FoundFiles(build_systems[i].patterns, files) # << >>}, files)

DetectedSystems(files) == SystemLoop(1, files)

---------------------------------------------------------------------------
(* detect_package_type *)

Exists(path) == [op |-> "exists", path |-> path]
Open(path) == [op |-> "open", path |-> path]

DictGet(d, key, default) == IF key \in DOMAIN d THEN d[key] ELSE default

Returned(info, rs) == [raised |-> "none", info |-> info, reads |-> rs]
Thrown(exc, rs) == [raised |-> exc, info |-> << >>, reads |-> rs]

\* the result of detect_package_type: the dictionary it returns, as the
\* sequence of its items, or the exception that leaves it
PackageType(tree, content) ==
    LET path == <<package_json>>
    IN  IF ManifestEntries(tree) = {} THEN Returned(<< >>, <<Exists(path)>>)
        ELSE IF ~HasManifestFile(tree)
        THEN Thrown("IsADirectoryError", <<Exists(path), Open(path)>>)
        ELSE LET rs == <<Exists(path), Open(path)>>
             IN  IF content.t = "malformed" THEN Returned(<< >>, rs)
                 ELSE LET data == content.value
                      IN  IF data.t # "object" THEN Thrown("AttributeError", rs)
                          ELSE LET name == DictGet(data.members, "name", JString("Unknown"))
                                   version == DictGet(data.members, "version", JString("Unknown"))
                                   deps == DictGet(data.members, "dependencies", JMapping(<< >>))
                               IN  IF deps.t # "object" THEN Thrown("AttributeError", rs)
                                   ELSE Returned(
                                          <<[key |-> "name", value |-> name],
                                            [key |-> "version", value |-> version],
                                            [key |-> "dependencies",
                                             value |-> [t |-> "list", items |-> deps.keys]]>>,
                                          rs)

---------------------------------------------------------------------------
(* main: output *)

ShowLimit == 5

JsonNull == [t |-> "null"]
JsonObject(items) == [t |-> "object", items |-> items]

\* variant: an empty dictionary is written as null
JsonResultOrNull(systems, info) ==
    [systems |-> [i \in 1..Len(systems) |->
                    [name |-> systems[i].system,
                     files |-> [j \in 1..Len(systems[i].found_files) |->
                                  PathStr(systems[i].found_files[j])]]],
     package_info |-> IF info = << >> THEN JsonNull ELSE JsonObject(info)]

\* the document of lines 142-150
JsonResult(systems, info) ==
    [systems |-> [i \in 1..Len(systems) |->
                    [name |-> systems[i].system,
                     files |-> [j \in 1..Len(systems[i].found_files) |->
                                  PathStr(systems[i].found_files[j])]]],
     package_info |-> JsonObject(info)]

\* the document of line 133
JsonNothing == [systems |-> << >>, package_info |-> JsonNull]

JsonLine(doc) == [t |-> "json", doc |-> doc]
Line(kind) == [t |-> kind]

\* lines 155-158 for one system
SystemLines(m) ==
    <<[t |-> "system", name |-> m.system], Line("found")>>
        \o [j \in 1..Len(m.found_files) |->
              [t |-> "file", path |-> PathStr(m.found_files[j])]]

\* variant: the truncation line is printed from ShowLimit items on
ListLinesFromLimit(key, items) ==
    <<[t |-> "listheader", key |-> key]>>
        \o [j \in 1..(IF Len(items) < ShowLimit THEN Len(items) ELSE ShowLimit) |->
              [t |-> "item", item |-> items[j]]]
        \o (IF Len(items) >= ShowLimit
            THEN <<[t |-> "more", n |-> Len(items) - ShowLimit]>>
            ELSE << >>)

\* lines 166-170: a list value
ListLines(key, items) ==
    <<[t |-> "listheader", key |-> key]>>
        \o [j \in 1..(IF Len(items) < ShowLimit THEN Len(items) ELSE ShowLimit) |->
              [t |-> "item", item |-> items[j]]]
        \o (IF Len(items) > ShowLimit
            THEN <<[t |-> "more", n |-> Len(items) - ShowLimit]>>
            ELSE << >>)

\* lines 164-172 for one item of package_info
ItemLines(item) ==
    IF item.value.t = "list" THEN ListLines(item.key, item.value.items)
    ELSE <<[t |-> "field", key |-> item.key, value |-> item.value]>>

\* lines 162-172
PackageLines(info) ==
    IF info = << >> THEN << >>
    ELSE <<Line("pkgheader")>> \o Flatten([i \in 1..Len(info) |-> ItemLines(info[i])])

---------------------------------------------------------------------------
(* The run *)

Init ==
    /\ fs \in FileSystems
    /\ manifest \in ManifestsOf(fs)
    /\ json \in BOOLEAN
    /\ pc = "start"
    /\ pending = << >>
    /\ all_files = << >>
    /\ detected = << >>
    /\ package_info = << >>
    /\ stdout = << >>
    /\ reads = << >>
    /\ raised = "none"

Raise(exc) == pc' = "raised" /\ raised' = exc

\* line 78: the files directly in the directory
ListFiles ==
    /\ pc = "start"
    /\ reads' = Append(reads, IterDir(<< >>))
    /\ IF fs.listable
       THEN /\ all_files' = all_files \o TopFiles(fs)
            /\ pc' = "iterdir"
            /\ UNCHANGED raised
       ELSE /\ Raise("OSError")
            /\ UNCHANGED all_files
    /\ UNCHANGED <<fs, manifest, json, pending, detected, package_info, stdout>>

\* line 80: the directory is listed again, for the loop over its entries
ListSubdirs ==
    /\ pc = "iterdir"
    /\ reads' = Append(reads, IterDir(<< >>))
    /\ IF fs.listable
       THEN /\ pending' = fs.entries
            /\ pc' = "subdirs"
            /\ UNCHANGED raised
       ELSE /\ Raise("OSError")
            /\ UNCHANGED pending
    /\ UNCHANGED <<fs, manifest, json, all_files, detected, package_info, stdout>>

\* variant: a subdirectory that cannot be listed is skipped
ScanSubdirSkipping ==
    /\ pc = "subdirs"
    /\ pending # << >>
    /\ LET subdir == Head(pending)
       IN  IF subdir.kind # "dir"
           THEN UNCHANGED <<all_files, reads, pc, raised>>
           ELSE /\ reads' = Append(reads, IterDir(<<subdir.name>>))
                /\ all_files' = IF subdir.listable
                                THEN all_files \o SubdirFiles(subdir)
                                ELSE all_files
                /\ UNCHANGED <<pc, raised>>
    /\ pending' = Tail(pending)
    /\ UNCHANGED <<fs, manifest, json, detected, package_info, stdout>>

\* lines 80-82: one iteration of the loop over the entries
ScanSubdir ==
    /\ pc = "subdirs"
    /\ pending # << >>
    /\ LET subdir == Head(pending)
       IN  IF subdir.kind # "dir"
           THEN UNCHANGED <<all_files, reads, pc, raised>>
           ELSE /\ reads' = Append(reads, IterDir(<<subdir.name>>))
                /\ IF subdir.listable
                   THEN /\ all_files' = all_files \o SubdirFiles(subdir)
                        /\ UNCHANGED <<pc, raised>>
                   ELSE /\ Raise("OSError")
                        /\ UNCHANGED all_files
    /\ pending' = Tail(pending)
    /\ UNCHANGED <<fs, manifest, json, detected, package_info, stdout>>

\* lines 85-98 and 129: the table is matched, the result returned to main
MatchPatterns ==
    /\ pc = "subdirs"
    /\ pending = << >>
    /\ detected' = DetectedSystems(all_files)
    /\ pc' = "detected"
    /\ UNCHANGED <<fs, manifest, json, pending, all_files, package_info, stdout,
                   reads, raised>>

\* variant: detect_package_type is called before the result is looked at
ReportNothingAfterProbe ==
    /\ pc = "detected"
    /\ detected = << >>
    /\ reads' = reads \o PackageType(fs, manifest).reads
    /\ stdout' = stdout \o (IF json THEN <<JsonLine(JsonNothing)>> ELSE <<Line("none")>>)
    /\ pc' = "done"
    /\ UNCHANGED <<fs, manifest, json, pending, all_files, detected, package_info,
                   raised>>

\* lines 131-136
ReportNothing ==
    /\ pc = "detected"
    /\ detected = << >>
    /\ stdout' = stdout \o (IF json THEN <<JsonLine(JsonNothing)>> ELSE <<Line("none")>>)
    /\ pc' = "done"
    /\ UNCHANGED <<fs, manifest, json, pending, all_files, detected, package_info,
                   reads, raised>>

\* line 138
DetectPackageType ==
    /\ pc = "detected"
    /\ detected # << >>
    /\ LET r == PackageType(fs, manifest)
       IN  /\ reads' = reads \o r.reads
           /\ IF r.raised = "none"
              THEN /\ package_info' = r.info
                   /\ pc' = "report"
                   /\ UNCHANGED raised
              ELSE /\ Raise(r.raised)
                   /\ UNCHANGED package_info
    /\ UNCHANGED <<fs, manifest, json, pending, all_files, detected, stdout>>

\* lines 140-151
PrintJson ==
    /\ pc = "report"
    /\ json
    /\ stdout' = Append(stdout, JsonLine(JsonResult(detected, package_info)))
    /\ pc' = "done"
    /\ UNCHANGED <<fs, manifest, json, pending, all_files, detected, package_info,
                   reads, raised>>

\* lines 153-158
PrintSystems ==
    /\ pc = "report"
    /\ ~json
    /\ stdout' = stdout \o <<Line("header")>>
                    \o Flatten([i \in 1..Len(detected) |-> SystemLines(detected[i])])
    /\ pc' = "package"
    /\ UNCHANGED <<fs, manifest, json, pending, all_files, detected, package_info,
                   reads, raised>>

\* lines 161-172
PrintPackageInfo ==
    /\ pc = "package"
    /\ LET r == PackageType(fs, manifest)
       IN  /\ reads' = reads \o r.reads
           /\ IF r.raised = "none"
              THEN /\ package_info' = r.info
                   /\ stdout' = stdout \o PackageLines(r.info)
                   /\ pc' = "done"
                   /\ UNCHANGED raised
              ELSE /\ Raise(r.raised)
                   /\ UNCHANGED <<package_info, stdout>>
    /\ UNCHANGED <<fs, manifest, json, pending, all_files, detected>>

Next ==
    \/ ListFiles
    \/ ListSubdirs
    \/ ScanSubdir
    \/ MatchPatterns
    \/ ReportNothing
    \/ DetectPackageType
    \/ PrintJson
    \/ PrintSystems
    \/ PrintPackageInfo

Spec == Init /\ [][Next]_vars

\* the interpreter runs the next statement of a sequential program
FairSpec == Spec /\ WF_vars(Next)

---------------------------------------------------------------------------
(* Properties *)

\* detect_build_system has returned its list to main
Matched ==
    \/ pc \in {"detected", "report", "package", "done"}
    \/ pc = "raised" /\ raised # "OSError"

\* the scan of lines 76-82 has run to its end
ScanComplete == Matched \/ (pc = "subdirs" /\ pending = << >>)

TopDirs == {i \in 1..Len(fs.entries) : fs.entries[i].kind = "dir"}

\* the regular files directly inside the directory
Depth1Files == {<<e.name>> : e \in {x \in Range(fs.entries) : x.kind = "file"}}

\* the regular files directly inside an immediate subdirectory
Depth2Files ==
    UNION {{<<fs.entries[i].name, e.name>> :
                e \in {x \in Range(fs.entries[i].entries) : x.kind = "file"}} :
           i \in TopDirs}

\* the regular files below a subdirectory of a subdirectory
Depth3Files ==
    UNION {UNION {{<<fs.entries[i].name, d.name, e.name>> :
                        e \in {x \in Range(d.entries) : x.kind = "file"}} :
                  d \in {x \in Range(fs.entries[i].entries) : x.kind = "dir"}} :
           i \in TopDirs}

\* the patterns of system i that some scanned file matches
Hits(i) ==
    {k \in 1..Len(build_systems[i].patterns) :
        \E f \in Range(all_files) : ReMatch(build_systems[i].patterns[k], PathName(f))}

FirstHitPattern(i) ==
    LET hits == Hits(i) IN CHOOSE k \in hits : \A h \in hits : k <= h

MatchesOf(i) ==
    {m \in 1..Len(detected) : detected[m].system = build_systems[i].system}

TableIndex(name) ==
    CHOOSE i \in 1..Len(build_systems) : build_systems[i].system = name

SystemNames == [m \in 1..Len(detected) |-> detected[m].system]

\* C1: for every system of the table, the Match recorded holds exactly the
\* scanned files that match the first of its patterns, in table order, that
\* matches any file; files matching only a later pattern are left out, and a
\* system none of whose patterns matches a file gets no Match.
C1_FirstPatternWins ==
    Matched =>
        \A i \in 1..Len(build_systems) :
            LET hits == Hits(i)
                first == CHOOSE k \in hits : \A h \in hits : k <= h
            IN  IF hits = {} THEN MatchesOf(i) = {}
                ELSE /\ Cardinality(MatchesOf(i)) = 1
                     /\ \A m \in MatchesOf(i) :
                           /\ Range(detected[m].found_files) =
                                 {f \in Range(all_files) :
                                     ReMatch(build_systems[i].patterns[first],
                                             PathName(f))}
                           /\ Cardinality(Range(detected[m].found_files)) =
                                 Len(detected[m].found_files)

\* build.gradle wins over a settings.gradle that was scanned too
C1_Witness ==
    /\ Matched
    /\ \E m \in 1..Len(detected) :
          /\ detected[m].system = "Gradle"
          /\ <<<<"b", "u", "i", "l", "d", ".", "g", "r", "a", "d", "l", "e">>>> \in Range(detected[m].found_files)
          /\ <<<<"s", "e", "t", "t", "i", "n", "g", "s", ".", "g", "r", "a", "d", "l", "e">>>> \in Range(all_files)
          /\ <<<<"s", "e", "t", "t", "i", "n", "g", "s", ".", "g", "r", "a", "d", "l", "e">>>> \notin Range(detected[m].found_files)

\* C2: the names of the systems returned follow the order of the pattern
\* table, each at most once, whatever the order in which the filesystem
\* enumerated the entries, and every system a scanned file belongs to is
\* reported.
C2_TableOrder ==
    /\ \A a, b \in 1..Len(detected) :
          a < b => TableIndex(detected[a].system) < TableIndex(detected[b].system)
    /\ Matched =>
          \A i \in 1..Len(build_systems) : Hits(i) # {} => MatchesOf(i) # {}

\* yarn.lock is enumerated before package.json, npm is reported before Yarn
C2_Witness ==
    /\ Matched
    /\ SystemNames = <<"npm", "Yarn">>
    /\ \E a, b \in 1..Len(fs.entries) :
          /\ a < b
          /\ fs.entries[a] = FileEntry(<<"y", "a", "r", "n", ".", "l", "o", "c", "k">>)
          /\ fs.entries[b] = FileEntry(<<"p", "a", "c", "k", "a", "g", "e", ".", "j", "s", "o", "n">>)

\* C3: detect_package_type never raises, and returns the empty dictionary
\* for a package.json that is not well-formed.
C3_NeverAborts ==
    /\ raised \in {"none", "OSError"}
    /\ (pc \in {"report", "package", "done"} /\ manifest = Malformed)
          => package_info = << >>

\* C4: the files scanned are exactly the regular files directly inside the
\* directory and directly inside its immediate subdirectories; no file from
\* deeper down is in a Match.
C4_ScanBoundary ==
    /\ ScanComplete => Range(all_files) = Depth1Files \cup Depth2Files
    /\ \A m \in 1..Len(detected) :
          /\ Range(detected[m].found_files) \subseteq Depth1Files \cup Depth2Files
          /\ Range(detected[m].found_files) \cap Depth3Files = {}

\* a Cargo.toml three levels down, a package.json two levels down: npm is
\* reported, Cargo is not
C4_Witness ==
    /\ Matched
    /\ \E f \in Depth3Files : PathName(f) = <<"C", "a", "r", "g", "o", ".", "t", "o", "m", "l">>
    /\ \E m \in 1..Len(detected) :
          \E f \in Range(detected[m].found_files) : Len(f) = 2
    /\ \A m \in 1..Len(detected) : detected[m].system # "Cargo (Rust)"

JsonDocs == {stdout[n].doc : n \in {n \in 1..Len(stdout) : stdout[n].t = "json"}}

\* C5: the document written in JSON mode has package_info null exactly when
\* its systems list is empty; with a system detected package_info is an
\* object, possibly empty.
C5_NullIffEmpty ==
    (pc = "done" /\ json) =>
        /\ Len(stdout) = 1
        /\ stdout[1].t = "json"
        /\ LET doc == stdout[1].doc
           IN  /\ doc.package_info.t = "null" <=> doc.systems = << >>
               /\ doc.systems # << >> => doc.package_info.t = "object"
               /\ Len(doc.systems) = Len(detected)

\* npm found through a package.json in a subdirectory, none in the directory
C5_Witness ==
    /\ pc = "done"
    /\ json
    /\ ManifestEntries(fs) = {}
    /\ \E doc \in JsonDocs :
          /\ \E n \in 1..Len(doc.systems) : doc.systems[n].name = "npm"
          /\ doc.package_info = JsonObject(<< >>)

\* the directory or one of its immediate subdirectories cannot be listed
Unlistable ==
    \/ ~fs.listable
    \/ \E i \in TopDirs : ~fs.entries[i].listable

ManifestAccess(r) == r.op \in {"exists", "open"}

\* C6: when the directory or an immediate subdirectory cannot be listed the
\* run ends with the filesystem error: no list of matches is returned,
\* nothing is printed, and the manifest is not touched.
C6_ListingErrorIsFatal ==
    /\ [](Unlistable =>
            /\ stdout = << >>
            /\ detected = << >>
            /\ ~ScanComplete
            /\ \A n \in 1..Len(reads) : ~ManifestAccess(reads[n])
            /\ raised \in {"none", "OSError"})
    /\ (Unlistable ~> (pc = "raised" /\ raised = "OSError"))

\* a readable subdirectory was scanned before the unreadable one stopped
\* the run
C6_Witness ==
    /\ pc = "raised"
    /\ raised = "OSError"
    /\ all_files # << >>
    /\ \E n \in 1..Len(reads) :
          /\ reads[n].path # << >>
          /\ \E i \in TopDirs :
                fs.entries[i].name = reads[n].path[1] /\ fs.entries[i].listable
    /\ stdout = << >>

\* the path relative to the directory scanned
RelativePath(f) ==
    IF Len(f) = 1 THEN f[1] ELSE f[1] \o <<"/">> \o f[2]

FileLines == SelectSeq(stdout, LAMBDA l : l.t = "file")

\* C7 as stated: every entry printed for a Match is the bare name of the
\* file.
C7_BareNames ==
    pc = "done" =>
        /\ json =>
              \A doc \in JsonDocs : \A i \in 1..Len(doc.systems) :
                  doc.systems[i].files =
                      [j \in 1..Len(detected[i].found_files) |->
                          PathName(detected[i].found_files[j])]
        /\ (~json /\ detected # << >>) =>
              [n \in 1..Len(FileLines) |-> FileLines[n].path] =
                  Flatten([i \in 1..Len(detected) |->
                              [j \in 1..Len(detected[i].found_files) |->
                                  PathName(detected[i].found_files[j])]])

\* C7, amended: every entry of a Match is a scanned regular file whose name
\* satisfies the winning pattern, and is printed as its path relative to the
\* directory: the bare name for a file of the directory, subdirectory/name
\* for a file of a subdirectory; a directory holding only Cargo.toml yields
\* the one Match "Cargo (Rust)" with that file.
C7_RelativePaths ==
    /\ Matched =>
          \A m \in 1..Len(detected) :
              LET i == TableIndex(detected[m].system)
                  winning == build_systems[i].patterns[FirstHitPattern(i)]
              IN  \A f \in Range(detected[m].found_files) :
                      /\ f \in Depth1Files \cup Depth2Files
                      /\ ReMatch(winning, PathName(f))
    /\ pc = "done" =>
          /\ json =>
                \A doc \in JsonDocs : \A i \in 1..Len(doc.systems) :
                    doc.systems[i].files =
                        [j \in 1..Len(detected[i].found_files) |->
                            RelativePath(detected[i].found_files[j])]
          /\ (~json /\ detected # << >>) =>
                [n \in 1..Len(FileLines) |-> FileLines[n].path] =
                    Flatten([i \in 1..Len(detected) |->
                                [j \in 1..Len(detected[i].found_files) |->
                                    RelativePath(detected[i].found_files[j])]])
    /\ (Matched /\ fs.entries = <<FileEntry(<<"C", "a", "r", "g", "o", ".", "t", "o", "m", "l">>)>>) =>
          detected = <<[system |-> "Cargo (Rust)",
                        found_files |-> << <<<<"C", "a", "r", "g", "o", ".", "t", "o", "m", "l">>>> >>]>>

\* a file of the directory and a file of the subdirectory build, both printed
C7_Witness ==
    /\ pc = "done"
    /\ json
    /\ \E doc \in JsonDocs :
          /\ \E i \in 1..Len(doc.systems) :
                <<"b", "u", "i", "l", "d", "/", "p", "a", "c", "k", "a", "g", "e", ".", "j", "s", "o", "n">> \in Range(doc.systems[i].files)
          /\ \E i \in 1..Len(doc.systems) :
                <<"C", "a", "r", "g", "o", ".", "t", "o", "m", "l">> \in Range(doc.systems[i].files)

\* the keys of the dependencies mapping of a parsed package.json
HasDependencies ==
    /\ manifest.t = "json"
    /\ manifest.value.t = "object"
    /\ "dependencies" \in DOMAIN manifest.value.members
    /\ manifest.value.members["dependencies"].t = "object"

DependencyKeys == manifest.value.members["dependencies"].keys

ItemLinesPrinted == SelectSeq(stdout, LAMBDA l : l.t = "item")
MoreLinesPrinted == SelectSeq(stdout, LAMBDA l : l.t = "more")

\* C8: in text mode the report lists the first min(n, 5) dependency names in
\* declaration order and ends with "... and n - 5 more" exactly when n > 5.
C8_FirstFiveDependencies ==
    (pc = "done" /\ ~json /\ HasDependencies) =>
        LET n == Len(DependencyKeys)
            k == IF n < 5 THEN n ELSE 5
            more == IF n > 5 THEN <<[t |-> "more", n |-> n - 5]>> ELSE << >>
            tail == <<[t |-> "listheader", key |-> "dependencies"]>>
                        \o [j \in 1..k |-> [t |-> "item", item |-> DependencyKeys[j]]]
                        \o more
        IN  /\ Len(stdout) >= Len(tail)
            /\ SubSeq(stdout, Len(stdout) - Len(tail) + 1, Len(stdout)) = tail
            /\ Len(ItemLinesPrinted) = k
            /\ MoreLinesPrinted = more

\* six dependencies declared f, e, d, c, b, a: five listed, one more
C8_Witness ==
    /\ pc = "done"
    /\ ~json
    /\ HasDependencies
    /\ DependencyKeys = <<"f", "e", "d", "c", "b", "a">>
    /\ [n \in 1..Len(ItemLinesPrinted) |-> ItemLinesPrinted[n].item]
          = <<"f", "e", "d", "c", "b">>
    /\ MoreLinesPrinted = <<[t |-> "more", n |-> 1]>>

\* C9: the directory is listed first, then its subdirectories, and the
\* manifest is touched only after every listing and only when a build
\* system was detected.
C9_ReadOrder ==
    /\ reads # << >> => reads[1] = IterDir(<< >>)
    /\ \A a, b \in 1..Len(reads) :
          a < b =>
              /\ ManifestAccess(reads[a]) => ManifestAccess(reads[b])
              /\ (reads[a].op = "iterdir" /\ reads[a].path # << >>)
                    => reads[b] # IterDir(<< >>)
    /\ (\E n \in 1..Len(reads) : ManifestAccess(reads[n])) =>
          /\ detected # << >>
          /\ \A i \in TopDirs : \E n \in 1..Len(reads) :
                reads[n] = IterDir(<<fs.entries[i].name>>)
    /\ ScanComplete =>
          SelectSeq(reads, LAMBDA r : r.op = "iterdir" /\ r.path # << >>)
              = [n \in 1..Cardinality(TopDirs) |->
                    IterDir(<<SelectSeq(fs.entries, LAMBDA e : e.kind = "dir")[n].name>>)]

\* a run that listed a subdirectory and then opened the manifest
C9_Witness ==
    /\ pc = "done"
    /\ \E a, b \in 1..Len(reads) :
          /\ a < b
          /\ reads[a].op = "iterdir" /\ reads[a].path # << >>
          /\ reads[b].op = "open"

\* the kind of the entry a path of one or two parts names
KindOf(f) ==
    LET top == CHOOSE e \in Range(fs.entries) : e.name = f[1]
    IN  IF Len(f) = 1 THEN top.kind
        ELSE (CHOOSE e \in Range(top.entries) : e.name = f[2]).kind

\* C10: every file of a Match is a regular file; a directory whose name
\* matches a pattern gives no Match, and the regular files inside it are
\* scanned and matched by their own names.
C10_RegularFilesOnly ==
    /\ \A m \in 1..Len(detected) :
          /\ detected[m].found_files # << >>
          /\ \A f \in Range(detected[m].found_files) : KindOf(f) = "file"
    /\ Matched =>
          \A f \in Depth2Files :
              /\ f \in Range(all_files)
              /\ \A i \in 1..Len(build_systems) :
                    ReMatch(build_systems[i].patterns[1], PathName(f))
                        => \E m \in MatchesOf(i) : f \in Range(detected[m].found_files)

\* a subdirectory named build gives no Bazel Match; the package.json inside
\* it gives an npm Match
C10_Witness ==
    /\ Matched
    /\ \E i \in TopDirs :
          /\ fs.entries[i].name = <<"b", "u", "i", "l", "d">>
          /\ \E k \in 1..Len(build_systems[TableIndex("Bazel")].patterns) :
                ReMatch(build_systems[TableIndex("Bazel")].patterns[k], fs.entries[i].name)
    /\ \A m \in 1..Len(detected) : detected[m].system # "Bazel"
    /\ \E m \in 1..Len(detected) :
          /\ detected[m].system = "npm"
          /\ <<<<"b", "u", "i", "l", "d">>, <<"p", "a", "c", "k", "a", "g", "e", ".", "j", "s", "o", "n">>>> \in Range(detected[m].found_files)

=============================================================================
